---- MODULE Spec2Model ----
(***************************************************************************)
(* Model of the GA4 report fetcher: the functional script ga4_api.py       *)
(* (impl = "api") and the class GA4AnalyticsClient of ga4_app.py           *)
(* (impl = "app").  Both hold the same four parts: the filter builder,     *)
(* the request builder, the pagination loop and the tabulation of the      *)
(* accumulated rows.                                                       *)
(***************************************************************************)
EXTENDS Integers, Sequences, FiniteSets, TLC

VARIABLES
    impl,               \* which of the two source files is running
    op,                 \* the operation under way
    pc,                 \* position of the operation
    dimensions,         \* argument: Optional list of dimension names
    metrics,            \* argument: Optional list of metric names
    dimensions_filter,  \* argument: Optional dict, as its items() in insertion order
    order_bys,          \* argument: Optional list of names to order by
    arg_offset,         \* argument offset of a direct create_request call
    arg_limit,          \* argument limit of a direct create_request call (Optional int)
    request,            \* the request_dict last built by the direct create_request call
    filter_expressions, \* the list last returned by a direct filter-builder call
    all_rows,           \* the accumulator of the pagination loop
    offset,             \* the offset of the pagination loop
    requests,           \* requests handed to run_report so far, in call order
    pages,              \* response.rows of every answered run_report call, in call order
    client_handle,      \* self._client (0 = None), or the handle passed in
    connects,           \* number of successful _establish_connection calls
    error,              \* the RuntimeError raised to the caller, if any
    returned,           \* value returned to the caller by the paginated request
    all_data,           \* argument of the tabulation: the list of rows
    table,              \* the list of dicts handed to pd.DataFrame
    handles             \* the handle every run_report call of this object went through

vars == <<impl, op, pc, dimensions, metrics, dimensions_filter, order_bys,
          arg_offset, arg_limit, request, filter_expressions, all_rows, offset,
          requests, pages, client_handle, connects, error, returned, all_data,
          table, handles>>

(***************************************************************************)
(* Bounds of the model.                                                    *)
(***************************************************************************)
\* Rows per request.  Stands for MAX_ROWS_PER_REQUEST (100000 in ga4_api.py,
\* 250000 in ga4_app.py), scaled down so that full pages can be enumerated.
PageSize == 2
\* run_report calls explored for one paginated request.
MaxCalls == 3
\* Longest list of names and longest value list of a row in the tabulation.
MaxLen == 2
\* Most rows handed to the tabulation.
MaxRows == 2
\* Most entries of a filter mapping.
MaxFilter == 2
\* run_report calls of one client object after which no further report is asked.
MaxUses == 5

Impls == {"api", "app"}

(***************************************************************************)
(* Python values.                                                          *)
(***************************************************************************)
\* Optional[...]: None or a value.
None == [some |-> FALSE, val |-> <<>>]
Some(x) == [some |-> TRUE, val |-> x]
NoneInt == [some |-> FALSE, val |-> 0]

\* `x or []` for an Optional list: None and the empty list are both falsy.
OrEmpty(x) == IF x.some THEN x.val ELSE <<>>
\* truth value of an Optional list or dict
Truthy(x) == x.some /\ Len(x.val) > 0

\* A filter value, by its Python type.
PyList(xs) == [type |-> "list", items |-> xs, text |-> ""]
PyStr(s) == [type |-> "str", items |-> <<>>, text |-> s]
PyTuple(xs) == [type |-> "tuple", items |-> xs, text |-> ""]
PyInt == [type |-> "int", items |-> <<>>, text |-> ""]

\* All sequences over S of length at most n.
SeqUpTo(S, n) == UNION {[1..k -> S] : k \in 0..n}

Range(s) == {s[i] : i \in DOMAIN s}

\* Sequences over S of length at most n without a repeated element.
DistinctSeqUpTo(S, n) == {s \in SeqUpTo(S, n) : Cardinality(Range(s)) = Len(s)}

(***************************************************************************)
(* MAX_ROWS_PER_REQUEST of either file, scaled (see PageSize).  The two    *)
(* files set different values and so does the model.                       *)
(***************************************************************************)
MAX_ROWS_PER_REQUEST(i) == IF i = "api" THEN PageSize ELSE PageSize + 1

(***************************************************************************)
(* Filter builder.  dimension_filtering (ga4_api.py) and                   *)
(* _create_filter_expressions (ga4_app.py) are the same loop over          *)
(* dimensions_filter.items().  A predicate records the fields the code     *)
(* passes to Filter(...); StringFilter's case_sensitive is never passed    *)
(* and so keeps the message default, false.                                *)
(***************************************************************************)
InListFilter(dimension, values) ==
    [field_name |-> dimension, kind |-> "in_list_filter", values |-> values.items,
     match_type |-> "", value |-> "", case_sensitive |-> FALSE]

StringFilter(dimension, values) ==
    [field_name |-> dimension, kind |-> "string_filter", values |-> <<>>,
     match_type |-> "CONTAINS", value |-> values.text, case_sensitive |-> FALSE]

\* Faulty variant: a tuple is taken for a list.
FilterEntry_TupleAsList(dimension, values) ==
    IF values.type \in {"list", "tuple"} THEN <<InListFilter(dimension, values)>>
    ELSE IF values.type = "str" THEN <<StringFilter(dimension, values)>>
    ELSE <<>>

\* One pass of the loop body: the entry appends one predicate, or nothing.
FilterEntry(dimension, values) ==
    IF values.type = "list" THEN <<InListFilter(dimension, values)>>
    ELSE IF values.type = "str" THEN <<StringFilter(dimension, values)>>
    ELSE <<>>

RECURSIVE FilterLoop(_)
FilterLoop(items) ==
    IF items = <<>> THEN <<>>
    ELSE FilterEntry(items[1][1], items[1][2]) \o FilterLoop(Tail(items))

dimension_filtering(filter_items) == FilterLoop(filter_items)

_create_filter_expressions(filter_items) == FilterLoop(filter_items)

(***************************************************************************)
(* Request builder.  The request is the request_dict handed to             *)
(* RunReportRequest; a key the code does not set is recorded as absent.    *)
(***************************************************************************)
PROPERTY_ID == "YOUR-GA4-PROPERTY-ID"
START_DATE == "30daysAgo"
END_DATE == "today"

NoFilter == [present |-> FALSE, group |-> "", expressions |-> <<>>]
NoOrder == [present |-> FALSE, entries |-> <<>>]

NameEntries(names) == [i \in DOMAIN names |-> [name |-> names[i]]]
OrderByEntries(names) == [i \in DOMAIN names |-> [dimension_name |-> names[i]]]

\* Faulty variant: the filter group is attached only when it holds a predicate.
FilterGroup_OnlyIfPredicates(filt, group, expressions) ==
    IF Truthy(filt) /\ Len(expressions) > 0
    THEN [present |-> TRUE, group |-> group, expressions |-> expressions]
    ELSE NoFilter

\* if dimensions_filter: request_dict["dimension_filter"] = FilterExpression(...)
FilterGroup(filt, group, expressions) ==
    IF Truthy(filt)
    THEN [present |-> TRUE, group |-> group, expressions |-> expressions]
    ELSE NoFilter

\* ga4_api.py: limit is a keyword argument with default 100000
create_request(dims, filt, mets, ords, off, lim) ==
    [property |-> <<"properties/", PROPERTY_ID>>,
     date_ranges |-> <<[start_date |-> START_DATE, end_date |-> END_DATE]>>,
     dimensions |-> NameEntries(OrEmpty(dims)),
     metrics |-> NameEntries(OrEmpty(mets)),
     keep_empty_rows |-> TRUE,
     offset |-> off,
     limit |-> IF lim.some THEN lim.val ELSE MAX_ROWS_PER_REQUEST("api"),
     dimension_filter |->
        FilterGroup(filt, "and_group", dimension_filtering(OrEmpty(filt))),
     order_bys |->
        IF Truthy(ords)
        THEN [present |-> TRUE, entries |-> OrderByEntries(OrEmpty(ords))]
        ELSE NoOrder]

\* ga4_app.py: limit = limit or self.MAX_ROWS_PER_REQUEST
LimitOrMax(lim) ==
    IF lim.some /\ lim.val # 0 THEN lim.val ELSE MAX_ROWS_PER_REQUEST("app")

\* Faulty variant: no default ordering (the branch of ga4_app.py left out).
DefaultOrder_Never(ords, dims) == OrEmpty(ords)

\* ga4_app.py: if not order_bys and dimensions: order_bys = dimensions
DefaultOrder(ords, dims) ==
    IF ~Truthy(ords) /\ Len(dims) > 0 THEN dims ELSE OrEmpty(ords)

_create_request(dims, mets, filt, ords, off, lim) ==
    LET ds == OrEmpty(dims)
        ms == OrEmpty(mets)
        obs == DefaultOrder(ords, ds)
    IN [property |-> <<"properties/", PROPERTY_ID>>,
        date_ranges |-> <<[start_date |-> START_DATE, end_date |-> END_DATE]>>,
        dimensions |-> NameEntries(ds),
        metrics |-> NameEntries(ms),
        keep_empty_rows |-> TRUE,
        offset |-> off,
        limit |-> LimitOrMax(lim),
        dimension_filter |->
           FilterGroup(filt, "or_group", _create_filter_expressions(OrEmpty(filt))),
        order_bys |->
           IF Len(obs) > 0
           THEN [present |-> TRUE, entries |-> OrderByEntries(obs)]
           ELSE NoOrder]

\* The request builder of the running file.
BuildRequest(i, dims, mets, filt, ords, off, lim) ==
    IF i = "api" THEN create_request(dims, filt, mets, ords, off, lim)
    ELSE _create_request(dims, mets, filt, ords, off, lim)

\* The filter builder of the running file.
BuildFilter(i, filter_items) ==
    IF i = "api" THEN dimension_filtering(filter_items)
    ELSE _create_filter_expressions(filter_items)

NoRequest == create_request(None, None, None, None, 0, NoneInt)

(***************************************************************************)
(* Pagination loop: run_paginated_request and _run_paginated_request.      *)
(***************************************************************************)
\* Faulty variant: the loop also stops on a page shorter than the smallest page size.
NoMoreRows_ShortPage(rows) == Len(rows) < PageSize

\* if not response.rows: break
NoMoreRows(rows) == Len(rows) = 0

\* Faulty variant: the page replaces the accumulator.
Extend_Replace(acc, rows) == rows

\* Faulty variant: the page is put in front of the accumulator.
Extend_Prepend(acc, rows) == rows \o acc

\* all_rows.extend(response.rows)
Extend(acc, rows) == acc \o rows

\* offset += MAX_ROWS_PER_REQUEST
AdvanceOffset(i, off) == off + MAX_ROWS_PER_REQUEST(i)

\* Faulty variant: the message names the offset of the last page that was answered.
RequestError_PreviousOffset(off, e) ==
    [raised |-> TRUE, offset |-> IF off > 0 THEN off - PageSize ELSE 0, cause |-> e]

\* raise RuntimeError(f"... at offset {offset}: {e}")
RequestError(off, e) == [raised |-> TRUE, offset |-> off, cause |-> e]
NoError == [raised |-> FALSE, offset |-> 0, cause |-> ""]

\* The request of the next loop iteration.
PageRequest(i, dims, mets, filt, ords, off) ==
    BuildRequest(i, dims, mets, filt, ords, off, Some(MAX_ROWS_PER_REQUEST(i)))

(***************************************************************************)
(* Tabulation: convert_response_to_dataframe and _convert_to_dataframe.    *)
(* A record of the table is a dict, a function from its keys.              *)
(***************************************************************************)
EmptyDict == [k \in {} |-> <<>>]

\* d[k] = v
DictSet(d, k, v) == [x \in (DOMAIN d) \cup {k} |-> IF x = k THEN v ELSE d[x]]

\* a | b : the keys of both, b's value where both have the key
DictMerge(a, b) ==
    [x \in (DOMAIN a) \cup (DOMAIN b) |-> IF x \in DOMAIN b THEN b[x] ELSE a[x]]

\* Faulty variant: a row must hold exactly as many values as there are names.
Indexable_Strict(names, values) == Len(values) = Len(names)

\* values[i] of every i in range(len(names)) exists
Indexable(names, values) == Len(values) >= Len(names)

\* Faulty variant: every name gets the row's first value.
RECURSIVE ZipInto_FirstValue(_, _, _, _)
ZipInto_FirstValue(d, names, values, i) ==
    IF i > Len(names) THEN d
    ELSE ZipInto_FirstValue(DictSet(d, names[i], values[1]), names, values, i + 1)

\* names[i] -> values[i] for i in range(len(names)), assigned in order of i
RECURSIVE ZipInto(_, _, _, _)
ZipInto(d, names, values, i) ==
    IF i > Len(names) THEN d
    ELSE ZipInto(DictSet(d, names[i], values[i]), names, values, i + 1)

\* ga4_api.py: {dims comprehension} | {metrics comprehension}
ApiRowDict(row, dims, mets) ==
    DictMerge(ZipInto(EmptyDict, dims, row.dimension_values, 1),
              ZipInto(EmptyDict, mets, row.metric_values, 1))

\* ga4_app.py: row_dict filled by the dimension loop, then by the metric loop
AppRowDict(row, dims, mets) ==
    ZipInto(ZipInto(EmptyDict, dims, row.dimension_values, 1),
            mets, row.metric_values, 1)

RowDict(i, row, dims, mets) ==
    IF i = "api" THEN ApiRowDict(row, dims, mets) ELSE AppRowDict(row, dims, mets)

\* an index of some row is out of range: the IndexError caught by the except
RaisesIndexError(data, dims, mets) ==
    \E r \in DOMAIN data :
        \/ ~Indexable(dims, data[r].dimension_values)
        \/ ~Indexable(mets, data[r].metric_values)

\* the list `data` handed to pd.DataFrame
TableData(i, data, dims, mets) ==
    [r \in DOMAIN data |-> RowDict(i, data[r], dims, mets)]

convert_response_to_dataframe(data, dims, mets) ==
    IF RaisesIndexError(data, dims, mets)
    THEN [ok |-> FALSE, data |-> <<>>, cause |-> "IndexError"]
    ELSE [ok |-> TRUE, data |-> TableData("api", data, dims, mets), cause |-> ""]

_convert_to_dataframe(data, dims, mets) ==
    IF RaisesIndexError(data, dims, mets)
    THEN [ok |-> FALSE, data |-> <<>>, cause |-> "IndexError"]
    ELSE [ok |-> TRUE, data |-> TableData("app", data, dims, mets), cause |-> ""]

Convert(i, data, dims, mets) ==
    IF i = "api" THEN convert_response_to_dataframe(data, dims, mets)
    ELSE _convert_to_dataframe(data, dims, mets)

NoTable == [ok |-> FALSE, data |-> <<>>, cause |-> ""]

(***************************************************************************)
(* Inputs.                                                                 *)
(***************************************************************************)
DimNames == {"date", "country"}
MetricNames == {"sessions", "date"}
OrderNames == {"sessions"}
FilterFields == {"continent", "country"}
FilterValues == {PyList(<<"Europe", "Asia">>), PyList(<<>>), PyStr("Eur"), PyInt,
                 PyTuple(<<"Europe">>)}

\* None or a list over S
OptSeqs(S, n) == {None} \cup {Some(s) : s \in SeqUpTo(S, n)}

\* items() of every dict with at most MaxFilter entries: the keys are distinct
FilterDicts ==
    UNION {[1..k -> FilterFields \X FilterValues] : k \in 0..MaxFilter}

FilterItems ==
    {d \in FilterDicts : \A a, b \in DOMAIN d : a # b => d[a][1] # d[b][1]}

FilterArgs == {None} \cup {Some(d) : d \in FilterItems}

\* limit omitted, or given: negative, zero, small, the maximum, above the maximum
Limits(i) ==
    {NoneInt} \cup {[some |-> TRUE, val |-> n] :
                     n \in {-1, 0, 1, MAX_ROWS_PER_REQUEST(i),
                            MAX_ROWS_PER_REQUEST(i) + 1}}

\* Rows the report source answers with.
SourceRows ==
    {[dimension_values |-> <<"20250601", "PL">>, metric_values |-> <<"5">>],
     [dimension_values |-> <<"20250602", "DE">>, metric_values |-> <<"7">>]}

\* response.rows of one answer: at most `limit` rows
Pages(i) == SeqUpTo(SourceRows, MAX_ROWS_PER_REQUEST(i))

\* Row r of a tabulation input with nd dimension values and nm metric values;
\* every value names its row, its kind and its index.
ShapedRow(r, nd, nm) ==
    [dimension_values |-> [i \in 1..nd |-> <<"dimension", r, i>>],
     metric_values |-> [i \in 1..nm |-> <<"metric", r, i>>]]

Shapes == (0..MaxLen) \X (0..MaxLen)

TabulationInputs ==
    {[r \in DOMAIN sh |-> ShapedRow(r, sh[r][1], sh[r][2])] :
        sh \in SeqUpTo(Shapes, MaxRows)}

(***************************************************************************)
(* Direct calls of the request builder and of the filter builder.          *)
(***************************************************************************)
RequestInit ==
    /\ impl \in Impls
    /\ op = "none"
    /\ pc = "start"
    /\ dimensions \in OptSeqs(DimNames, MaxLen)
    /\ metrics \in {None, Some(<<"sessions">>)}
    /\ dimensions_filter \in FilterArgs
    /\ order_bys \in OptSeqs(OrderNames, MaxLen)
    /\ arg_offset \in {0, PageSize}
    /\ arg_limit \in Limits(impl)
    /\ request = NoRequest
    /\ filter_expressions = <<>>
    /\ all_rows = <<>>
    /\ offset = 0
    /\ requests = <<>>
    /\ pages = <<>>
    /\ client_handle = 0
    /\ connects = 0
    /\ error = NoError
    /\ returned = None
    /\ all_data = <<>>
    /\ table = NoTable
    /\ handles = <<>>

CallCreateRequest ==
    /\ pc = "start"
    /\ op' = "create_request"
    /\ request' = BuildRequest(impl, dimensions, metrics, dimensions_filter,
                               order_bys, arg_offset, arg_limit)
    /\ pc' = "done"
    /\ UNCHANGED <<handles, impl, dimensions, metrics, dimensions_filter, order_bys,
                   arg_offset, arg_limit, filter_expressions, all_rows, offset,
                   requests, pages, client_handle, connects, error, returned,
                   all_data, table>>

CallFilterBuilder ==
    /\ pc = "start"
    /\ dimensions_filter.some
    /\ op' = "dimension_filtering"
    /\ filter_expressions' = BuildFilter(impl, dimensions_filter.val)
    /\ pc' = "done"
    /\ UNCHANGED <<handles, impl, dimensions, metrics, dimensions_filter, order_bys,
                   arg_offset, arg_limit, request, all_rows, offset, requests,
                   pages, client_handle, connects, error, returned, all_data,
                   table>>

RequestNext == CallCreateRequest \/ CallFilterBuilder

SpecRequest == RequestInit /\ [][RequestNext]_vars

(***************************************************************************)
(* A paginated request, then the tabulation of what it returned            *)
(* (the main script of ga4_api.py, get_report of ga4_app.py).              *)
(***************************************************************************)
PaginateInit ==
    /\ impl \in Impls
    /\ op = "run_paginated_request"
    /\ pc = "start"
    /\ dimensions = Some(<<"date", "country">>)
    /\ metrics = Some(<<"sessions">>)
    \* the filters of the two main scripts: {"continent": ["Europe"]} and {}
    /\ dimensions_filter = IF impl = "api"
                           THEN Some(<<<<"continent", PyList(<<"Europe">>)>>>>)
                           ELSE Some(<<>>)
    /\ order_bys = Some(<<>>)
    /\ arg_offset = 0
    /\ arg_limit = NoneInt
    /\ request = NoRequest
    /\ filter_expressions = <<>>
    /\ all_rows = <<>>
    /\ offset = 0
    /\ requests = <<>>
    /\ pages = <<>>
    \* ga4_api.py is handed a client; self._client starts as None
    /\ client_handle = IF impl = "api" THEN 1 ELSE 0
    /\ connects = IF impl = "api" THEN 1 ELSE 0
    /\ error = NoError
    /\ returned = None
    /\ all_data = <<>>
    /\ table = NoTable
    /\ handles = <<>>

\* all_rows = []; offset = 0
EnterLoop ==
    /\ pc = "start"
    /\ op = "run_paginated_request"
    /\ all_rows' = <<>>
    /\ offset' = 0
    /\ pc' = "loop"
    /\ UNCHANGED <<handles, impl, op, dimensions, metrics, dimensions_filter, order_bys,
                   arg_offset, arg_limit, request, filter_expressions, requests,
                   pages, client_handle, connects, error, returned, all_data, table>>

\* self.client of ga4_app.py raises inside the try: no run_report call is made
ConnectFails ==
    /\ pc = "loop"
    /\ Len(requests) < MaxCalls
    /\ client_handle = 0
    /\ error' = RequestError(offset, "connect")
    /\ pc' = "failed"
    /\ UNCHANGED <<handles, impl, op, dimensions, metrics, dimensions_filter, order_bys,
                   arg_offset, arg_limit, request, filter_expressions, all_rows,
                   offset, requests, pages, client_handle, connects, returned,
                   all_data, table>>

\* Faulty variant: the property connects on every use and never reads the cache.
ClientAfterUse_Reconnect == connects + 1

\* The handle self.client answers with: the cached one, or a new one.
ClientAfterUse == IF client_handle = 0 THEN connects + 1 ELSE client_handle
\* _establish_connection is called when the handle answered is a new one
ConnectsAfterUse == IF ClientAfterUse # client_handle THEN connects + 1 ELSE connects

\* One iteration whose run_report call raises.
FetchFails ==
    /\ pc = "loop"
    /\ Len(requests) < MaxCalls
    /\ requests' = Append(requests, PageRequest(impl, dimensions, metrics,
                                                dimensions_filter, order_bys, offset))
    /\ client_handle' = ClientAfterUse
    /\ connects' = ConnectsAfterUse
    /\ handles' = Append(handles, ClientAfterUse)
    /\ error' = RequestError(offset, "run_report")
    /\ pc' = "failed"
    /\ UNCHANGED <<impl, op, dimensions, metrics, dimensions_filter, order_bys,
                   arg_offset, arg_limit, request, filter_expressions, all_rows,
                   offset, pages, returned, all_data, table>>

\* self.client.run_report(request) answers with `rows`: the rest of the iteration.
AnswerPage(rows) ==
    /\ requests' = Append(requests, PageRequest(impl, dimensions, metrics,
                                                dimensions_filter, order_bys, offset))
    /\ pages' = Append(pages, rows)
    /\ client_handle' = ClientAfterUse
    /\ connects' = ConnectsAfterUse
    /\ handles' = Append(handles, ClientAfterUse)
    /\ IF NoMoreRows(rows)
       THEN /\ pc' = "done"
            /\ returned' = Some(all_rows)
            /\ UNCHANGED <<all_rows, offset>>
       ELSE /\ all_rows' = Extend(all_rows, rows)
            /\ offset' = AdvanceOffset(impl, offset)
            /\ pc' = "loop"
            /\ UNCHANGED returned

\* One iteration whose run_report call answers with a page.
FetchPage ==
    /\ pc = "loop"
    /\ Len(requests) < MaxCalls
    /\ \E rows \in Pages(impl) : AnswerPage(rows)
    /\ UNCHANGED <<impl, op, dimensions, metrics, dimensions_filter, order_bys,
                   arg_offset, arg_limit, request, filter_expressions, error,
                   all_data, table>>

\* df = convert_response_to_dataframe(all_data, dimensions, metrics)
TabulateReturned ==
    /\ pc = "done"
    /\ op = "run_paginated_request"
    /\ all_data' = returned.val
    /\ table' = Convert(impl, returned.val, OrEmpty(dimensions), OrEmpty(metrics))
    /\ pc' = "tabulated"
    /\ UNCHANGED <<handles, impl, op, dimensions, metrics, dimensions_filter, order_bys,
                   arg_offset, arg_limit, request, filter_expressions, all_rows,
                   offset, requests, pages, client_handle, connects, error, returned>>

PaginateNext ==
    EnterLoop \/ ConnectFails \/ FetchFails \/ FetchPage \/ TabulateReturned

SpecPaginate == PaginateInit /\ [][PaginateNext]_vars

(***************************************************************************)
(* Direct calls of the tabulation on any list of rows.                     *)
(***************************************************************************)
TabulateInit ==
    /\ impl \in Impls
    /\ op = "convert_response_to_dataframe"
    /\ pc = "start"
    /\ dimensions \in {Some(s) : s \in SeqUpTo(DimNames, MaxLen)}
    /\ metrics \in {Some(s) : s \in SeqUpTo(MetricNames, MaxLen)}
    /\ dimensions_filter = None
    /\ order_bys = None
    /\ arg_offset = 0
    /\ arg_limit = NoneInt
    /\ request = NoRequest
    /\ filter_expressions = <<>>
    /\ all_rows = <<>>
    /\ offset = 0
    /\ requests = <<>>
    /\ pages = <<>>
    /\ client_handle = 0
    /\ connects = 0
    /\ error = NoError
    /\ returned = None
    /\ all_data \in TabulationInputs
    /\ table = NoTable
    /\ handles = <<>>

CallConvert ==
    /\ pc = "start"
    /\ op = "convert_response_to_dataframe"
    /\ table' = Convert(impl, all_data, dimensions.val, metrics.val)
    /\ pc' = IF table'.ok THEN "tabulated" ELSE "failed"
    /\ UNCHANGED <<handles, impl, op, dimensions, metrics, dimensions_filter, order_bys,
                   arg_offset, arg_limit, request, filter_expressions, all_rows,
                   offset, requests, pages, client_handle, connects, error,
                   returned, all_data>>

TabulateNext == CallConvert

SpecTabulate == TabulateInit /\ [][TabulateNext]_vars

(***************************************************************************)
(* Properties of the pagination loop (SpecPaginate).                       *)
(***************************************************************************)
PageSizeOf == MAX_ROWS_PER_REQUEST(impl)

\* The concatenation of the pages in fetch order.
RECURSIVE Concat(_)
Concat(ps) == IF ps = <<>> THEN <<>> ELSE ps[1] \o Concat(Tail(ps))

NonEmptyPages == Cardinality({n \in DOMAIN pages : Len(pages[n]) > 0})

Succeeded == pc \in {"done", "tabulated"}

\* every page answered so far is a full page
AllFull(n) == \A m \in 1..n : Len(pages[m]) = PageSizeOf

\* the source answered k full pages and then one empty page
FullPagesThenEmpty ==
    /\ Len(pages) >= 1
    /\ pages[Len(pages)] = <<>>
    /\ AllFull(Len(pages) - 1)

\* C1: when the source answers k full pages of page_size rows and then an empty
\* page, the paginated request ends successfully after exactly k+1 run_report
\* calls and returns k * page_size rows (k = 0: one call, an empty list, no
\* error); before the empty page arrives the loop is still running.
C1_FullPagesThenEmpty ==
    /\ FullPagesThenEmpty =>
          /\ Succeeded
          /\ ~error.raised
          /\ Len(requests) = Len(pages)
          /\ returned.some
          /\ Len(returned.val) = (Len(pages) - 1) * PageSizeOf
          /\ ~ENABLED (FetchPage \/ FetchFails \/ ConnectFails)
    /\ (AllFull(Len(pages)) /\ ~error.raised /\ pc # "start") =>
          /\ pc = "loop"
          /\ ~returned.some
          /\ Len(all_rows) = Len(pages) * PageSizeOf

C1_Witness ==
    /\ FullPagesThenEmpty
    /\ Len(pages) = 3
    /\ pc = "done"
    /\ Len(returned.val) = 2 * PageSizeOf

\* C2: when the j-th run_report call raises, the operation fails with exactly j
\* calls made and none after it, nothing is returned, no table is built, and the
\* error names the offset (j-1) * page_size of the failing request.
C2_FetchFailure ==
    (error.raised /\ error.cause = "run_report") =>
        /\ pc = "failed"
        /\ Len(requests) = Len(pages) + 1
        /\ \A n \in DOMAIN pages : Len(pages[n]) > 0
        /\ ~returned.some
        /\ table = NoTable
        /\ error.offset = (Len(requests) - 1) * PageSizeOf
        /\ error.offset = requests[Len(requests)].offset
        /\ ~ENABLED PaginateNext

C2_Witness ==
    /\ error.raised
    /\ error.cause = "run_report"
    /\ Len(requests) = 3
    /\ Len(all_rows) > 0
    /\ error.offset = 2 * PageSizeOf

\* C3: the rows returned by a successful paginated request are the pages
\* concatenated in fetch order, each page's rows in the order the source gave
\* them; while the loop runs the accumulator is that concatenation so far.
C3_FetchOrder ==
    /\ Succeeded => (returned.some /\ returned.val = Concat(pages))
    /\ pc = "loop" => all_rows = Concat(pages)

C3_Witness ==
    /\ pc = "done"
    /\ Len(pages) = 3
    /\ Len(pages[1]) = 2
    /\ pages[1][1] # pages[1][2]
    /\ pages[2] # pages[1]
    /\ returned.val = pages[1] \o pages[2]

\* C10: the offset is page_size times the number of non-empty pages fetched so
\* far; request n (0-indexed) carries offset n * page_size and limit page_size;
\* the loop ends successfully only on an empty page, so after a non-empty page,
\* however short, the loop is running and fetches again.
C10_OffsetInvariant ==
    /\ offset = PageSizeOf * NonEmptyPages
    /\ \A n \in DOMAIN requests :
          /\ requests[n].offset = (n - 1) * PageSizeOf
          /\ requests[n].limit = PageSizeOf
    /\ Succeeded => (Len(pages) >= 1 /\ pages[Len(pages)] = <<>>)
    /\ \A n \in DOMAIN pages : (n < Len(pages)) => Len(pages[n]) > 0
    /\ (Len(pages) >= 1 /\ Len(pages[Len(pages)]) > 0 /\ ~error.raised) =>
          /\ pc = "loop"
          /\ (Len(requests) < MaxCalls => ENABLED FetchPage)

C10_Witness ==
    /\ Len(pages) >= 2
    /\ Len(pages[1]) = 1
    /\ Len(pages[1]) < PageSizeOf
    /\ requests[2].offset = PageSizeOf
    /\ offset = 2 * PageSizeOf

(***************************************************************************)
(* Properties of the tabulation (SpecTabulate).                            *)
(***************************************************************************)
Dims == dimensions.val
Mets == metrics.val

Converted == op = "convert_response_to_dataframe" /\ pc # "start"

\* every row holds exactly one value per name
Aligned ==
    \A r \in DOMAIN all_data :
        /\ Len(all_data[r].dimension_values) = Len(Dims)
        /\ Len(all_data[r].metric_values) = Len(Mets)

\* the names of both lists are pairwise distinct
DistinctNames == Cardinality(Range(Dims) \cup Range(Mets)) = Len(Dims) + Len(Mets)

\* the last index at which names holds k
LastIndex(names, k) ==
    CHOOSE i \in DOMAIN names : names[i] = k /\ \A j \in DOMAIN names : names[j] = k => j <= i

\* N records in row order, D+M keys each, name i mapped to the row's value i
TabulatedPositionally ==
    /\ table.ok
    /\ Len(table.data) = Len(all_data)
    /\ \A r \in DOMAIN all_data :
          /\ Cardinality(DOMAIN table.data[r]) = Len(Dims) + Len(Mets)
          /\ \A i \in DOMAIN Dims :
                table.data[r][Dims[i]] = all_data[r].dimension_values[i]
          /\ \A i \in DOMAIN Mets :
                table.data[r][Mets[i]] = all_data[r].metric_values[i]

\* C4 as stated: any aligned input is tabulated positionally, D+M keys a record
C4_Original == (Converted /\ Aligned) => TabulatedPositionally

\* C4: for N rows of D dimension values and M metric values and D+M pairwise
\* distinct names, the table holds N records in row order, each of D+M keys, name
\* i mapped to the row's i-th value unchanged.  With a name repeated, a record
\* holds one key per distinct name: a metric's value where the name is a metric
\* name, and the value at the name's last index.
C4_Tabulation ==
    (Converted /\ Aligned) =>
        /\ DistinctNames => TabulatedPositionally
        /\ table.ok
        /\ Len(table.data) = Len(all_data)
        /\ \A r \in DOMAIN all_data :
              /\ DOMAIN table.data[r] = Range(Dims) \cup Range(Mets)
              /\ \A k \in Range(Mets) :
                    table.data[r][k] = all_data[r].metric_values[LastIndex(Mets, k)]
              /\ \A k \in Range(Dims) \ Range(Mets) :
                    table.data[r][k] = all_data[r].dimension_values[LastIndex(Dims, k)]

C4_Witness ==
    /\ Converted
    /\ Aligned
    /\ DistinctNames
    /\ Len(all_data) = 2
    /\ Len(Dims) = 2
    /\ Len(Mets) = 1
    /\ table.ok
    /\ table.data[2][Dims[2]] = <<"dimension", 2, 2>>

FewerValues ==
    \E r \in DOMAIN all_data :
        \/ Len(all_data[r].dimension_values) < Len(Dims)
        \/ Len(all_data[r].metric_values) < Len(Mets)

\* C5 as stated: any row with fewer or more values than names fails the tabulation
C5_Original == (Converted /\ ~Aligned) => ~table.ok

\* C5: the tabulation fails, wrapping the IndexError and producing no table,
\* exactly when some row holds fewer dimension values than there are dimension
\* names or fewer metric values than there are metric names; a row with more
\* values than names is tabulated and its surplus values are left out.
C5_ShortRowFails ==
    Converted =>
        /\ table.ok <=> ~FewerValues
        /\ ~table.ok => (table.data = <<>> /\ table.cause = "IndexError" /\ pc = "failed")
        /\ table.ok =>
              \A r \in DOMAIN all_data :
                  DOMAIN table.data[r] = Range(Dims) \cup Range(Mets)

C5_Witness ==
    /\ Converted
    /\ Len(all_data) = 2
    /\ Len(all_data[1].dimension_values) = Len(Dims)
    /\ Len(all_data[1].metric_values) = Len(Mets)
    /\ Len(all_data[2].dimension_values) = Len(Dims)
    /\ Len(all_data[2].metric_values) < Len(Mets)
    /\ ~table.ok
    /\ pc = "failed"

(***************************************************************************)
(* Properties of the request builder and the filter builder (SpecRequest). *)
(***************************************************************************)
Built == op = "create_request" /\ pc = "done"
Filtered == op = "dimension_filtering" /\ pc = "done"

\* C6: every request the request builder produces carries a positive limit of
\* at most MAX_ROWS_PER_REQUEST, whatever limit the caller supplies.
C6_LimitCapped ==
    Built => (request.limit > 0 /\ request.limit <= MAX_ROWS_PER_REQUEST(impl))

DimList == OrEmpty(dimensions)

\* C7 as stated: without an ordering and with dimensions, one order-by entry per
\* dimension in the given order; a supplied ordering as given; none when both
\* are empty.
C7_Original ==
    Built =>
        /\ (~Truthy(order_bys) /\ Len(DimList) > 0) =>
              request.order_bys = [present |-> TRUE, entries |-> OrderByEntries(DimList)]
        /\ Truthy(order_bys) =>
              request.order_bys = [present |-> TRUE,
                                   entries |-> OrderByEntries(order_bys.val)]
        /\ (~Truthy(order_bys) /\ Len(DimList) = 0) => ~request.order_bys.present

\* C7: _create_request of ga4_app.py orders by each dimension, in the order
\* given, when order_bys is absent or empty and there are dimensions;
\* create_request of ga4_api.py attaches no ordering then.  Both use a supplied
\* ordering as given and attach none when ordering and dimensions are empty.
C7_DefaultOrdering ==
    Built =>
        /\ (impl = "app" /\ ~Truthy(order_bys) /\ Len(DimList) > 0) =>
              /\ request.order_bys.present
              /\ Len(request.order_bys.entries) = Len(DimList)
              /\ \A i \in DOMAIN DimList :
                    request.order_bys.entries[i].dimension_name = DimList[i]
        /\ (impl = "api" /\ ~Truthy(order_bys)) => request.order_bys = NoOrder
        /\ Truthy(order_bys) =>
              /\ request.order_bys.present
              /\ Len(request.order_bys.entries) = Len(order_bys.val)
              /\ \A i \in DOMAIN order_bys.val :
                    request.order_bys.entries[i].dimension_name = order_bys.val[i]
        /\ (~Truthy(order_bys) /\ Len(DimList) = 0) => request.order_bys = NoOrder

C7_Witness ==
    /\ Built
    /\ impl = "app"
    /\ ~order_bys.some
    /\ DimList = <<"country", "date">>
    /\ request.order_bys.present
    /\ request.order_bys.entries[1].dimension_name = "country"

\* the entries of the mapping whose value is a list or a string, in order
Supported(filter_items) ==
    SelectSeq(filter_items, LAMBDA e : e[2].type \in {"list", "str"})

\* one predicate per supported entry, in mapping order: membership over the
\* list, or containment of the string with case sensitivity cs
PredicatesMatch(expressions, filter_items, cs) ==
    LET sup == Supported(filter_items)
    IN /\ Len(expressions) = Len(sup)
       /\ \A i \in DOMAIN sup :
             /\ expressions[i].field_name = sup[i][1]
             /\ sup[i][2].type = "list" =>
                   /\ expressions[i].kind = "in_list_filter"
                   /\ expressions[i].values = sup[i][2].items
             /\ sup[i][2].type = "str" =>
                   /\ expressions[i].kind = "string_filter"
                   /\ expressions[i].match_type = "CONTAINS"
                   /\ expressions[i].value = sup[i][2].text
                   /\ expressions[i].case_sensitive = cs

AllSupported(filter_items) == Len(Supported(filter_items)) = Len(filter_items)

\* C8 as stated: the containment predicates are case-sensitive
C8_Original ==
    Filtered => PredicatesMatch(filter_expressions, dimensions_filter.val, TRUE)

\* C8: the filter builder returns, in mapping order, one membership predicate
\* per entry whose value is a list and one CONTAINS predicate per entry whose
\* value is a string; the string predicate leaves case_sensitive unset, which
\* is a case-insensitive match.  Entries of any other type add nothing and raise
\* nothing, so with only lists and strings the count is the mapping size.
C8_FilterBuilder ==
    Filtered =>
        /\ PredicatesMatch(filter_expressions, dimensions_filter.val, FALSE)
        /\ AllSupported(dimensions_filter.val) =>
              Len(filter_expressions) = Len(dimensions_filter.val)

C8_Witness ==
    /\ Filtered
    /\ Len(dimensions_filter.val) = 2
    /\ dimensions_filter.val[1][2].type = "str"
    /\ dimensions_filter.val[2][2].type = "list"
    /\ Len(filter_expressions) = 2
    /\ filter_expressions[1].kind = "string_filter"
    /\ filter_expressions[2].kind = "in_list_filter"

\* C9: a built request carries a filter group exactly when the filter mapping
\* is non-empty; the group then holds the filter builder's predicates under
\* one logical operator, also when every entry was skipped and it holds none.
C9_FilterGroup ==
    Built =>
        /\ request.dimension_filter.present <=>
              (dimensions_filter.some /\ Len(dimensions_filter.val) > 0)
        /\ ~request.dimension_filter.present => request.dimension_filter = NoFilter
        /\ request.dimension_filter.present =>
              /\ request.dimension_filter.group = (IF impl = "api" THEN "and_group"
                                                   ELSE "or_group")
              /\ PredicatesMatch(request.dimension_filter.expressions,
                                 dimensions_filter.val, FALSE)

C9_Witness ==
    /\ Built
    /\ Len(OrEmpty(dimensions_filter)) = 2
    /\ Supported(dimensions_filter.val) = <<>>
    /\ request.dimension_filter.present
    /\ request.dimension_filter.expressions = <<>>

(***************************************************************************)
(* One GA4AnalyticsClient object used for report after report              *)
(* (get_report, export_report): every report runs the pagination loop      *)
(* and the tabulation on the same object, whose _client outlives the call. *)
(***************************************************************************)
\* response.rows of the report source here: no row, or one row
ClientPages ==
    {<<>>, <<[dimension_values |-> <<"20250601", "PL">>, metric_values |-> <<"5">>]>>}

ClientInit ==
    /\ impl = "app"
    /\ op = "run_paginated_request"
    /\ pc = "start"
    /\ dimensions = Some(<<"date", "country">>)
    /\ metrics = Some(<<"sessions">>)
    /\ dimensions_filter = Some(<<>>)
    /\ order_bys = None
    /\ arg_offset = 0
    /\ arg_limit = NoneInt
    /\ request = NoRequest
    /\ filter_expressions = <<>>
    /\ all_rows = <<>>
    /\ offset = 0
    /\ requests = <<>>
    /\ pages = <<>>
    \* __init__: self._client = None
    /\ client_handle = 0
    /\ connects = 0
    /\ error = NoError
    /\ returned = None
    /\ all_data = <<>>
    /\ table = NoTable
    /\ handles = <<>>

\* One iteration of the loop, answered by the report source of this section.
ClientFetchPage ==
    /\ pc = "loop"
    /\ Len(requests) < MaxCalls
    /\ \E rows \in ClientPages : AnswerPage(rows)
    /\ UNCHANGED <<impl, op, dimensions, metrics, dimensions_filter, order_bys,
                   arg_offset, arg_limit, request, filter_expressions, error,
                   all_data, table>>

\* Filters and orderings of the reports asked of one object.
ReportFilters == {Some(<<>>), Some(<<<<"continent", PyList(<<"Europe">>)>>>>)}
ReportOrders == {None, Some(<<"date">>)}

\* The caller asks the same object for another report, with arguments of its
\* choice, after one that returned or raised.  Only self._client is carried over.
NextReport ==
    /\ pc \in {"failed", "tabulated"}
    /\ Len(handles) < MaxUses
    /\ dimensions_filter' \in ReportFilters
    /\ order_bys' \in ReportOrders
    /\ pc' = "start"
    /\ all_rows' = <<>>
    /\ offset' = 0
    /\ requests' = <<>>
    /\ pages' = <<>>
    /\ error' = NoError
    /\ returned' = None
    /\ all_data' = <<>>
    /\ table' = NoTable
    /\ UNCHANGED <<handles, impl, op, dimensions, metrics, arg_offset, arg_limit,
                   request, filter_expressions, client_handle, connects>>

ClientNext ==
    \/ EnterLoop
    \/ ConnectFails
    \/ FetchFails
    \/ ClientFetchPage
    \/ TabulateReturned
    \/ NextReport

SpecClient == ClientInit /\ [][ClientNext]_vars

\* C11: over any sequence of reports of one GA4AnalyticsClient object the
\* connection is established at most once; once it is, self._client holds
\* that handle for good, every run_report call of every page and of every
\* later report goes through it, and no connection is attempted again.
C11_HandleReused ==
    /\ connects <= 1
    /\ client_handle # 0 <=> connects = 1
    /\ \A n \in DOMAIN handles : handles[n] = handles[1]
    /\ handles # <<>> => client_handle = handles[1]
    /\ client_handle # 0 => ~ENABLED ConnectFails
    /\ (error.raised /\ error.cause = "connect") => client_handle = 0

C11_Witness ==
    /\ connects = 1
    /\ Len(handles) = 4
    /\ Truthy(dimensions_filter)
    /\ Len(requests) = 1
    /\ pc = "done"
    /\ handles[4] = handles[1]
    /\ client_handle = handles[1]

====
